---- MODULE Spec2Model ----
(***************************************************************************)
(* zkToolkit: commitments, Merkle trees, range proofs and nullifiers over  *)
(* the Poseidon hash of circomlibjs.                                       *)
(*                                                                         *)
(* Representation.  A JavaScript string is a sequence of one-character     *)
(* strings.  A bigint (and a non-negative integral number) is a BigNat: a  *)
(* little-endian sequence of base-16 digits without a leading zero digit   *)
(* (<< >> is 0), so values beyond 2^31 and 254-bit field elements are      *)
(* exact.  The Poseidon permutation is external: it is taken as an         *)
(* injective function of its input sequence (a collision-free oracle) and  *)
(* the reduction of inputs modulo the field prime is not modelled.         *)
(***************************************************************************)
EXTENDS Integers, Sequences, FiniteSets, TLC

\* ------------------------------------------------------------ characters

Ascii ==
  << " ", "!", "\"", "#", "$", "%", "&", "'", "(", ")", "*", "+", ",", "-",
     ".", "/", "0", "1", "2", "3", "4", "5", "6", "7", "8", "9", ":", ";",
     "<", "=", ">", "?", "@", "A", "B", "C", "D", "E", "F", "G", "H", "I",
     "J", "K", "L", "M", "N", "O", "P", "Q", "R", "S", "T", "U", "V", "W",
     "X", "Y", "Z", "[", "\\", "]", "^", "_", "grave", "a", "b", "c", "d", "e",
     "f", "g", "h", "i", "j", "k", "l", "m", "n", "o", "p", "q", "r", "s",
     "t", "u", "v", "w", "x", "y", "z", "{", "|", "}", "~" >>

\* TextEncoder.encode on one ASCII character: its byte.  Ascii lists the
\* printable characters from code 32 on (code 96, which a TLA+ string cannot
\* hold, is kept as a placeholder so that the positions stay the codes).
CharCode(c) == 31 + (CHOOSE i \in 1..Len(Ascii) : Ascii[i] = c)

CharOf(code) == Ascii[code - 31]

IsUpper(c) == CharCode(c) >= 65 /\ CharCode(c) <= 90

IsDigit(c) == CharCode(c) >= 48 /\ CharCode(c) <= 57

\* String.prototype.toLowerCase
toLowerCase(s) ==
  [i \in 1..Len(s) |-> IF IsUpper(s[i]) THEN CharOf(CharCode(s[i]) + 32) ELSE s[i]]

\* String.prototype.startsWith
startsWith(s, prefix) ==
  /\ Len(s) >= Len(prefix)
  /\ \A i \in 1..Len(prefix) : s[i] = prefix[i]

\* String.prototype.slice(from) and slice(0, to), on non-negative arguments
sliceFrom(s, from) == [i \in 1..(IF Len(s) > from THEN Len(s) - from ELSE 0) |-> s[i + from]]

sliceTo(s, to) == [i \in 1..(IF Len(s) < to THEN Len(s) ELSE to) |-> s[i]]

\* String.prototype.padEnd(width, fill) with a one-character fill
padEnd(s, width, fill) ==
  [i \in 1..(IF Len(s) > width THEN Len(s) ELSE width) |-> IF i <= Len(s) THEN s[i] ELSE fill]

Reverse(s) == [i \in 1..Len(s) |-> s[Len(s) + 1 - i]]

\* The value of a digit character in a radix up to 16, or -1.
DigitVal(c) ==
  LET k == CharCode(c)
  IN  IF k >= 48 /\ k <= 57 THEN k - 48
      ELSE IF k >= 97 /\ k <= 102 THEN k - 87
      ELSE IF k >= 65 /\ k <= 70 THEN k - 55
      ELSE -1

HexChars == << "0", "1", "2", "3", "4", "5", "6", "7",
               "8", "9", "a", "b", "c", "d", "e", "f" >>

\* --------------------------------------------------------------- BigNat

RECURSIVE Norm(_)
Norm(a) ==
  IF a = << >> THEN << >>
  ELSE IF a[Len(a)] = 0 THEN Norm(SubSeq(a, 1, Len(a) - 1))
  ELSE a

RECURSIVE NatFromInt(_)
NatFromInt(n) == IF n = 0 THEN << >> ELSE << n % 16 >> \o NatFromInt(n \div 16)

RECURSIVE MulCarry(_, _, _)
MulCarry(a, m, carry) ==
  IF a = << >> THEN NatFromInt(carry)
  ELSE LET t == a[1] * m + carry
       IN  << t % 16 >> \o MulCarry(Tail(a), m, t \div 16)

\* a * m + d for small m and d
MulAddSmall(a, m, d) == Norm(MulCarry(a, m, d))

Digit(a, i) == IF i <= Len(a) THEN a[i] ELSE 0

RECURSIVE AddCarry(_, _, _, _)
AddCarry(a, b, i, carry) ==
  IF i > Len(a) /\ i > Len(b)
  THEN (IF carry = 0 THEN << >> ELSE << carry >>)
  ELSE LET t == Digit(a, i) + Digit(b, i) + carry
       IN  << t % 16 >> \o AddCarry(a, b, i + 1, t \div 16)

NatAdd(a, b) == Norm(AddCarry(a, b, 1, 0))

RECURSIVE SubBorrow(_, _, _, _)
SubBorrow(a, b, i, borrow) ==
  IF i > Len(a) THEN << >>
  ELSE LET t == Digit(a, i) - Digit(b, i) - borrow
       IN  IF t < 0 THEN << t + 16 >> \o SubBorrow(a, b, i + 1, 1)
           ELSE << t >> \o SubBorrow(a, b, i + 1, 0)

RECURSIVE NatLessFrom(_, _, _)
NatLessFrom(a, b, i) ==
  IF i = 0 THEN FALSE
  ELSE IF a[i] # b[i] THEN a[i] < b[i]
  ELSE NatLessFrom(a, b, i - 1)

NatLess(a, b) ==
  IF Len(a) # Len(b) THEN Len(a) < Len(b) ELSE NatLessFrom(a, b, Len(a))

NatLeq(a, b) == a = b \/ NatLess(a, b)

\* a - b for a >= b
NatSub(a, b) == Norm(SubBorrow(a, b, 1, 0))

\* ---------------------------------------------------------------- codec

\* A thrown exception in place of a bigint: a sequence no BigNat equals.
SyntaxError == << -1 >>

RangeError == << -2 >>

Threw(x) == Len(x) > 0 /\ x[1] < 0

\* A thrown exception in place of a string.
ThrownStr == << "Error" >>

ThrewStr(s) == s = ThrownStr

RECURSIVE ParseDigits(_, _, _, _)
ParseDigits(s, i, radix, acc) ==
  IF i > Len(s) THEN acc
  ELSE LET d == DigitVal(s[i])
       IN  IF d < 0 \/ d >= radix THEN SyntaxError
           ELSE ParseDigits(s, i + 1, radix, MulAddSmall(acc, radix, d))

\* The digits of a hexadecimal literal as an integer: the most significant
\* digit comes first in the string and last in the BigNat.
ParseHex(s, from) ==
  IF \E i \in from..Len(s) : DigitVal(s[i]) < 0 THEN SyntaxError
  ELSE Norm([i \in 1..(Len(s) + 1 - from) |-> DigitVal(s[Len(s) + 1 - i])])

\* BigInt(string): StringToBigInt on strings without white space or sign.
BigIntOfString(s) ==
  IF s = << >> THEN << >>
  ELSE IF Len(s) >= 2 /\ s[1] = "0" /\ s[2] \in {"x", "X", "o", "O", "b", "B"}
  THEN IF Len(s) = 2 THEN SyntaxError
       ELSE IF s[2] \in {"x", "X"} THEN ParseHex(s, 3)
       ELSE ParseDigits(s, 3, IF s[2] \in {"o", "O"} THEN 8 ELSE 2, << >>)
  ELSE ParseDigits(s, 1, 10, << >>)

MaxFieldBytes == 31

\* A truncation one byte short.
BytesToFieldShort(bytes) ==
  LET n == IF Len(bytes) < MaxFieldBytes - 1 THEN Len(bytes) ELSE MaxFieldBytes - 1
  IN  Norm([j \in 1..(2 * n) |->
              LET byte == bytes[n - ((j - 1) \div 2)]
              IN  IF j % 2 = 1 THEN byte % 16 ELSE byte \div 16])

\* The loop of stringToFieldElement: result = result * 256 + bytes[i] over the
\* first 31 bytes.  In base 16 each step appends the two digits of the byte, so
\* the result is the digits of the bytes read, the first byte most significant.
BytesToField(bytes) ==
  LET n == IF Len(bytes) < MaxFieldBytes THEN Len(bytes) ELSE MaxFieldBytes
  IN  Norm([j \in 1..(2 * n) |->
              LET byte == bytes[n - ((j - 1) \div 2)]
              IN  IF j % 2 = 1 THEN byte % 16 ELSE byte \div 16])

\* TextEncoder.encode on an ASCII string
Encode(s) == [i \in 1..Len(s) |-> CharCode(s[i])]

HexPrefix == << "0", "x" >>

\* A string with the 0x prefix that BigInt() rejects.
NoLiteral == << "0", "x", "z" >>

\* stringToFieldElement of the merkle and nullifier modules
stringToFieldElement(input) ==
  IF startsWith(input, HexPrefix) THEN BigIntOfString(input)
  ELSE BytesToField(Encode(input))

\* --------------------------------------------------------------- oracle

\* One input of the oracle, framed by its length (three digits).
Frame(e) == e \o << Len(e) % 16, (Len(e) \div 16) % 16, Len(e) \div 256 >>

RECURSIVE Frames(_)
Frames(inputs) ==
  IF inputs = << >> THEN << >> ELSE Frame(inputs[1]) \o Frames(Tail(inputs))

\* poseidon(inputs) followed by F.fromMontgomery: the digest as an integer.
\* Injective in the sequence of inputs (each is framed by its length), and
\* never 0: the most significant digit is 15.
Poseidon(inputs) == Frames(inputs) \o << 15 >>

\* toHex of the digest bytes: the 0x prefix and two lowercase digits per byte.
toHex(digest) ==
  LET even == IF Len(digest) % 2 = 1 THEN digest \o << 0 >> ELSE digest
  IN  << "0", "x" >> \o [i \in 1..Len(even) |-> HexChars[even[Len(even) + 1 - i] + 1]]

\* poseidon(inputs) rendered as the modules render it
PoseidonHex(inputs) == toHex(Poseidon(inputs))

\* --------------------------------------------------------------- merkle

MaxLeaves == 3

RECURSIVE BitAnd(_, _)
BitAnd(a, b) ==
  IF a = 0 \/ b = 0 THEN 0
  ELSE (a % 2) * (b % 2) + 2 * BitAnd(a \div 2, b \div 2)

\* Math.log2 on a power of two
RECURSIVE Log2(_)
Log2(n) == IF n <= 1 THEN 0 ELSE 1 + Log2(n \div 2)

RECURSIVE PadToPowerOfTwo(_)
PadToPowerOfTwo(leaves) ==
  IF BitAnd(Len(leaves), Len(leaves) - 1) # 0
  THEN PadToPowerOfTwo(Append(leaves, << "0" >>))
  ELSE leaves

\* The padding without the doubling of a single leaf
PadLeavesNoDoubling(leaves) == PadToPowerOfTwo(leaves)

PadLeaves(leaves) ==
  LET padded == PadToPowerOfTwo(leaves)
  IN  IF Len(padded) = 1 THEN Append(padded, << "0" >>) ELSE padded

\* One leaf of level 0: toHex(poseidon([stringToFieldElement(leaf)]))
HashLeaf(leaf) ==
  LET field == stringToFieldElement(leaf)
  IN  IF Threw(field) THEN ThrownStr ELSE PoseidonHex(<< field >>)

\* poseidon([BigInt(left), BigInt(right)]) of two hex strings
HashPair(left, right) ==
  LET l == BigIntOfString(left)
      r == BigIntOfString(right)
  IN  IF Threw(l) \/ Threw(r) THEN ThrownStr ELSE PoseidonHex(<< l, r >>)

NextLevel(currentLevel) ==
  [j \in 1..(Len(currentLevel) \div 2) |->
     HashPair(currentLevel[2 * j - 1], currentLevel[2 * j])]

RECURSIVE BuildLevels(_)
BuildLevels(currentLevel) ==
  IF Len(currentLevel) > 1
  THEN << currentLevel >> \o BuildLevels(NextLevel(currentLevel))
  ELSE << currentLevel >>

NoTree == [root |-> << >>, leaves |-> << >>, levels |-> << >>, depth |-> 0]

\* merkle.create: threw, or the tree
merkleCreate(leaves) ==
  IF Len(leaves) = 0 THEN [threw |-> TRUE, tree |-> NoTree]
  ELSE LET paddedLeaves == PadLeaves(leaves)
           level0 == [i \in 1..Len(paddedLeaves) |-> HashLeaf(paddedLeaves[i])]
       IN  IF \E i \in 1..Len(level0) : ThrewStr(level0[i])
           THEN [threw |-> TRUE, tree |-> NoTree]
           ELSE LET levels == BuildLevels(level0)
                IN  [threw |-> FALSE,
                     tree |-> [root |-> levels[Len(levels)][1],
                               leaves |-> paddedLeaves,
                               levels |-> levels,
                               depth |-> Log2(Len(paddedLeaves))]]

NoProof == [leaf |-> << >>, index |-> 0, pathElements |-> << >>,
            pathIndices |-> << >>, root |-> << >>]

\* The loop of merkle.proof with the side of the node recorded the wrong way
RECURSIVE ProofWalkFlipped(_, _, _)
ProofWalkFlipped(t, level, currentIndex) ==
  IF level >= Len(t.levels) - 1 THEN [pathElements |-> << >>, pathIndices |-> << >>]
  ELSE LET isRightNode == currentIndex % 2 = 1
           siblingIndex == IF isRightNode THEN currentIndex - 1 ELSE currentIndex + 1
           rest == ProofWalkFlipped(t, level + 1, currentIndex \div 2)
       IN  [pathElements |-> << t.levels[level + 1][siblingIndex + 1] >> \o rest.pathElements,
            pathIndices |-> << IF isRightNode THEN 0 ELSE 1 >> \o rest.pathIndices]

RECURSIVE ProofWalk(_, _, _)
ProofWalk(t, level, currentIndex) ==
  IF level >= Len(t.levels) - 1 THEN [pathElements |-> << >>, pathIndices |-> << >>]
  ELSE LET isRightNode == currentIndex % 2 = 1
           siblingIndex == IF isRightNode THEN currentIndex - 1 ELSE currentIndex + 1
           rest == ProofWalk(t, level + 1, currentIndex \div 2)
       IN  [pathElements |-> << t.levels[level + 1][siblingIndex + 1] >> \o rest.pathElements,
            pathIndices |-> << IF isRightNode THEN 1 ELSE 0 >> \o rest.pathIndices]

\* merkle.proof refusing the last leaf as well
merkleProofOffByOne(t, index) ==
  IF index < 0 \/ index >= Len(t.leaves) - 1 THEN [threw |-> TRUE, proof |-> NoProof]
  ELSE LET path == ProofWalk(t, 0, index)
       IN  [threw |-> FALSE,
            proof |-> [leaf |-> t.leaves[index + 1],
                       index |-> index,
                       pathElements |-> path.pathElements,
                       pathIndices |-> path.pathIndices,
                       root |-> t.root]]

\* merkle.proof: threw, or the proof (index counts from 0)
merkleProof(t, index) ==
  IF index < 0 \/ index >= Len(t.leaves) THEN [threw |-> TRUE, proof |-> NoProof]
  ELSE LET path == ProofWalk(t, 0, index)
       IN  [threw |-> FALSE,
            proof |-> [leaf |-> t.leaves[index + 1],
                       index |-> index,
                       pathElements |-> path.pathElements,
                       pathIndices |-> path.pathIndices,
                       root |-> t.root]]

\* The loop with the two children taken in the wrong order.
RECURSIVE VerifyWalkSwapped(_, _, _, _)
VerifyWalkSwapped(currentHex, pathElements, pathIndices, i) ==
  IF i > Len(pathElements) THEN currentHex
  ELSE LET sibling == BigIntOfString(pathElements[i])
           current == BigIntOfString(currentHex)
           isLeft == i <= Len(pathIndices) /\ pathIndices[i] = 0
           left == IF isLeft THEN sibling ELSE current
           right == IF isLeft THEN current ELSE sibling
       IN  IF Threw(sibling) \/ Threw(current) THEN ThrownStr
           ELSE VerifyWalkSwapped(PoseidonHex(<< left, right >>), pathElements,
                                  pathIndices, i + 1)

\* The loop of merkle.verify from step i on; pathIndices[i] is undefined, so
\* not 0, past the end of pathIndices.
RECURSIVE VerifyWalk(_, _, _, _)
VerifyWalk(currentHex, pathElements, pathIndices, i) ==
  IF i > Len(pathElements) THEN currentHex
  ELSE LET sibling == BigIntOfString(pathElements[i])
           current == BigIntOfString(currentHex)
           isLeft == i <= Len(pathIndices) /\ pathIndices[i] = 0
           left == IF isLeft THEN current ELSE sibling
           right == IF isLeft THEN sibling ELSE current
       IN  IF Threw(sibling) \/ Threw(current) THEN ThrownStr
           ELSE VerifyWalk(PoseidonHex(<< left, right >>), pathElements, pathIndices, i + 1)

NoVerify == [called |-> FALSE, threw |-> FALSE, valid |-> FALSE,
             computedRoot |-> << >>, expectedRoot |-> << >>, leaf |-> << >>]

\* merkle.verify
merkleVerify(root, leaf, proof) ==
  LET leafHex == HashLeaf(leaf)
      currentHex == IF ThrewStr(leafHex) THEN ThrownStr
                    ELSE VerifyWalk(leafHex, proof.pathElements, proof.pathIndices, 1)
  IN  IF ThrewStr(currentHex)
      THEN [called |-> TRUE, threw |-> TRUE, valid |-> FALSE,
            computedRoot |-> << >>, expectedRoot |-> root, leaf |-> leaf]
      ELSE [called |-> TRUE, threw |-> FALSE,
            valid |-> toLowerCase(currentHex) = toLowerCase(root),
            computedRoot |-> currentHex, expectedRoot |-> root, leaf |-> leaf]

\* ------------------------------------------------------- merkle: state

VARIABLES
  tree,      \* the tree of the last merkle.create, or NoTree
  mproof,    \* the proof object in the caller's hands, or NoProof
  mleaf,     \* the leaf the caller claims
  mtamper,   \* what the caller changed in mproof or mleaf since merkle.proof
  mres,      \* the result of the last merkle.verify, or NoVerify
  mcall      \* the last merkle call and whether it threw

mvars == << tree, mproof, mleaf, mtamper, mres, mcall >>

LongLeaf == [i \in 1..32 |-> "k"]

LeafSamples == { << "a" >>, << "0", "x", "1", "A" >> }

\* The inputs of merkle.create: every sequence of up to MaxLeaves sample
\* leaves, a leaf longer than the 31 bytes that are encoded, a leaf that
\* is no hexadecimal literal, and five leaves (a tree of depth 3).

RECURSIVE SeqsUpTo(_, _)
SeqsUpTo(S, n) ==
  IF n = 0 THEN { << >> }
  ELSE LET shorter == SeqsUpTo(S, n - 1)
       IN  shorter \cup { Append(q, x) : q \in shorter, x \in S }

MerkleInputs ==
  SeqsUpTo(LeafSamples, MaxLeaves)
    \cup { << LongLeaf >>, << << "a" >>, LongLeaf >>, << << "a" >>, << "0", "x" >> >>,
           [i \in 1..5 |-> << "a" >>] }

TamperChars == { "1", "F", "X", "z" }

NoTamper == [kind |-> "none", element |-> 0, pos |-> 0, old |-> "", new |-> ""]

NoCall == [op |-> "none", threw |-> FALSE, leaves |-> << >>, index |-> 0]

\* merkle.create on any of the sample inputs.  A later create would start
\* again from the same states, so one is taken per behaviour (and another
\* after one that threw).
MerkleCreate ==
  /\ tree = NoTree
  /\ \E leaves \in MerkleInputs :
       LET r == merkleCreate(leaves)
       IN  /\ tree' = r.tree
           /\ mcall' = [op |-> "create", threw |-> r.threw, leaves |-> leaves, index |-> 0]
           /\ mproof' = NoProof
           /\ mleaf' = << >>
           /\ mtamper' = NoTamper
           /\ mres' = NoVerify

\* merkle.proof on the tree, for every index and one on either side; as with
\* create, one proof is taken per behaviour.
MerkleProof ==
  /\ tree # NoTree
  /\ mproof = NoProof
  /\ \E index \in -1..Len(tree.leaves) :
       LET r == merkleProof(tree, index)
       IN  /\ mproof' = r.proof
           /\ mleaf' = r.proof.leaf
           /\ mcall' = [op |-> "proof", threw |-> r.threw, leaves |-> << >>, index |-> index]
           /\ mtamper' = NoTamper
           /\ mres' = NoVerify
           /\ UNCHANGED tree

\* The caller changes one character of one pathElements entry.
TamperPathElement ==
  /\ mproof # NoProof
  /\ mtamper = NoTamper
  /\ \E k \in 1..Len(mproof.pathElements) :
       \E pos \in 1..Len(mproof.pathElements[k]) :
         \E c \in TamperChars \ { mproof.pathElements[k][pos] } :
           /\ mproof' = [mproof EXCEPT !.pathElements[k][pos] = c]
           /\ mtamper' = [kind |-> "pathElement", element |-> k, pos |-> pos,
                          old |-> mproof.pathElements[k][pos], new |-> c]
  /\ mres' = NoVerify
  /\ UNCHANGED << tree, mleaf, mcall >>

\* The caller changes one character of the leaf it claims.
TamperLeaf ==
  /\ mproof # NoProof
  /\ mtamper = NoTamper
  /\ \E pos \in 1..Len(mleaf) :
       \E c \in TamperChars \ { mleaf[pos] } :
         /\ mleaf' = [mleaf EXCEPT ![pos] = c]
         /\ mtamper' = [kind |-> "leaf", element |-> 0, pos |-> pos,
                        old |-> mleaf[pos], new |-> c]
  /\ mres' = NoVerify
  /\ UNCHANGED << tree, mproof, mcall >>

\* The caller drops the last entry of pathIndices, leaving the two arrays of
\* the proof with different lengths.
DropPathIndex ==
  /\ mproof # NoProof
  /\ mtamper = NoTamper
  /\ Len(mproof.pathIndices) > 0
  /\ mproof' = [mproof EXCEPT !.pathIndices = sliceTo(@, Len(@) - 1)]
  /\ mtamper' = [kind |-> "dropIndex", element |-> Len(mproof.pathIndices), pos |-> 0,
                 old |-> "", new |-> ""]
  /\ mres' = NoVerify
  /\ UNCHANGED << tree, mleaf, mcall >>

\* The caller drops the last entry of pathElements.
DropPathElement ==
  /\ mproof # NoProof
  /\ mtamper = NoTamper
  /\ Len(mproof.pathElements) > 0
  /\ mproof' = [mproof EXCEPT !.pathElements = sliceTo(@, Len(@) - 1)]
  /\ mtamper' = [kind |-> "dropElement", element |-> Len(mproof.pathElements), pos |-> 0,
                 old |-> "", new |-> ""]
  /\ mres' = NoVerify
  /\ UNCHANGED << tree, mleaf, mcall >>

MerkleVerify ==
  /\ mproof # NoProof
  /\ mres' = merkleVerify(tree.root, mleaf, mproof)
  /\ mcall' = [op |-> "verify", threw |-> mres'.threw, leaves |-> << >>, index |-> 0]
  /\ UNCHANGED << tree, mproof, mleaf, mtamper >>

MerkleNext ==
  \/ MerkleCreate
  \/ MerkleProof
  \/ TamperPathElement
  \/ TamperLeaf
  \/ DropPathIndex
  \/ DropPathElement
  \/ MerkleVerify

\* --------------------------------------------------------------- commit

\* A JavaScript value that commit accepts: a bigint (big), a number (big
\* and, when it is no integer, frac # 0), or a string (str).
BigIntValue(n) == [type |-> "bigint", big |-> NatFromInt(n), frac |-> 0, str |-> << >>]

NumberValue(n, frac) == [type |-> "number", big |-> NatFromInt(n), frac |-> frac, str |-> << >>]

StringValue(s) == [type |-> "string", big |-> << >>, frac |-> 0, str |-> s]

\* Buffer.from(secret).toString("hex"): two lowercase digits per byte
HexOfBytes(bytes) ==
  [j \in 1..(2 * Len(bytes)) |->
     LET byte == bytes[(j + 1) \div 2]
     IN  HexChars[(IF j % 2 = 1 THEN byte \div 16 ELSE byte % 16) + 1]]

SaltWidth == 64

\* "0x" + Buffer.from(secret).toString("hex").padEnd(64, "0").slice(0, 64)
SaltOfSecret(secret) ==
  HexPrefix \o sliceTo(padEnd(HexOfBytes(Encode(secret)), SaltWidth, "0"), SaltWidth)

hexToFieldElement(hex) ==
  LET cleanHex == IF startsWith(hex, HexPrefix) THEN sliceFrom(hex, 2) ELSE hex
  IN  BigIntOfString(HexPrefix \o cleanHex)

\* Number(string) followed by the isNaN and isFinite tests and Math.floor, on
\* strings of digits, letters and points (no white space, sign or exponent):
\* nan, or the floor of the number.
NumberOfString(s) ==
  LET points == { i \in 1..Len(s) : s[i] = "." }
      digitsOnly(from, to) == \A i \in from..to : IsDigit(s[i])
      intPart(to) == ParseDigits(sliceTo(s, to), 1, 10, << >>)
  IN  IF s = << >> THEN [nan |-> FALSE, floor |-> << >>]
      ELSE IF Len(s) >= 2 /\ s[1] = "0" /\ s[2] \in {"x", "X", "o", "O", "b", "B"}
      THEN LET v == BigIntOfString(s)
           IN  [nan |-> Threw(v), floor |-> IF Threw(v) THEN << >> ELSE v]
      ELSE IF points = { }
      THEN [nan |-> ~digitsOnly(1, Len(s)),
            floor |-> IF digitsOnly(1, Len(s)) THEN intPart(Len(s)) ELSE << >>]
      ELSE LET p == CHOOSE i \in points : TRUE
               ok == /\ Cardinality(points) = 1
                     /\ Len(s) > 1
                     /\ digitsOnly(1, p - 1)
                     /\ digitsOnly(p + 1, Len(s))
           IN  [nan |-> ~ok, floor |-> IF ok THEN intPart(p - 1) ELSE << >>]

valueToFieldElement(value) ==
  IF value.type = "bigint" THEN value.big
  ELSE IF value.type = "number"
  THEN (IF value.frac # 0 THEN RangeError ELSE value.big)
  ELSE IF startsWith(value.str, HexPrefix) THEN BigIntOfString(value.str)
  ELSE LET num == NumberOfString(value.str)
       IN  IF ~num.nan THEN num.floor
           ELSE BytesToField(Encode(value.str))

\* An optional string argument: absent, or the string.
Absent == [given |-> FALSE, str |-> << >>]

Given(s) == [given |-> TRUE, str |-> s]

\* The test `secret ? ... : ...`: undefined and the empty string are falsy.
Truthy(secret) == secret.given /\ secret.str # << >>

NoCommitment == [made |-> FALSE, threw |-> FALSE, commitment |-> << >>, salt |-> << >>]

\* commit.create returning the random salt whether or not it was used
commitCreateReturningRandom(value, secret, random) ==
  LET salt == IF Truthy(secret) THEN SaltOfSecret(secret.str) ELSE random
      valueField == valueToFieldElement(value)
      saltField == hexToFieldElement(salt)
  IN  IF Threw(valueField) \/ Threw(saltField)
      THEN [made |-> TRUE, threw |-> TRUE, commitment |-> << >>, salt |-> << >>]
      ELSE [made |-> TRUE, threw |-> FALSE,
            commitment |-> PoseidonHex(<< valueField, saltField >>),
            salt |-> random]

\* commit.create; random is what generateSalt() returns when it is called
commitCreate(value, secret, random) ==
  LET salt == IF Truthy(secret) THEN SaltOfSecret(secret.str) ELSE random
      valueField == valueToFieldElement(value)
      saltField == hexToFieldElement(salt)
  IN  IF Threw(valueField) \/ Threw(saltField)
      THEN [made |-> TRUE, threw |-> TRUE, commitment |-> << >>, salt |-> << >>]
      ELSE [made |-> TRUE, threw |-> FALSE,
            commitment |-> PoseidonHex(<< valueField, saltField >>),
            salt |-> salt]

NoReveal == [called |-> FALSE, threw |-> FALSE, valid |-> FALSE,
             commitment |-> << >>, salt |-> << >>]

\* commit.reveal with the comparison left out
commitRevealNoCompare(commitment, value, secret) ==
  LET salt == SaltOfSecret(secret)
      valueField == valueToFieldElement(value)
      saltField == hexToFieldElement(salt)
  IN  [called |-> TRUE, threw |-> Threw(valueField) \/ Threw(saltField),
       valid |-> ~(Threw(valueField) \/ Threw(saltField)),
       commitment |-> commitment, salt |-> salt]

\* commit.reveal
commitReveal(commitment, value, secret) ==
  LET salt == SaltOfSecret(secret)
      valueField == valueToFieldElement(value)
      saltField == hexToFieldElement(salt)
  IN  IF Threw(valueField) \/ Threw(saltField)
      THEN [called |-> TRUE, threw |-> TRUE, valid |-> FALSE,
            commitment |-> commitment, salt |-> salt]
      ELSE [called |-> TRUE, threw |-> FALSE,
            valid |-> toLowerCase(PoseidonHex(<< valueField, saltField >>))
                        = toLowerCase(commitment),
            commitment |-> commitment, salt |-> salt]

NoCommitVerify == [called |-> FALSE, threw |-> FALSE, valid |-> FALSE,
                   commitment |-> << >>, expectedCommitment |-> << >>]

\* commit.verify
commitVerify(commitment, value, salt) ==
  LET valueField == valueToFieldElement(value)
      saltField == hexToFieldElement(salt)
      expectedHex == PoseidonHex(<< valueField, saltField >>)
  IN  IF Threw(valueField) \/ Threw(saltField)
      THEN [called |-> TRUE, threw |-> TRUE, valid |-> FALSE,
            commitment |-> commitment, expectedCommitment |-> << >>]
      ELSE [called |-> TRUE, threw |-> FALSE,
            valid |-> toLowerCase(expectedHex) = toLowerCase(commitment),
            commitment |-> commitment, expectedCommitment |-> expectedHex]

\* ------------------------------------------------------- commit: state

VARIABLES
  cmt,        \* the result of the last commit.create, or NoCommitment
  cvalue,     \* the value committed to
  csecret,    \* the secret given to commit.create, or Absent
  rev,        \* the result of the last commit.reveal, or NoReveal
  rvalue,     \* the value revealed
  rsecret,    \* the secret given to commit.reveal
  cver,       \* the result of the last commit.verify, or NoCommitVerify
  vvalue,     \* the value given to commit.verify
  vsalt       \* the salt given to commit.verify

cvars == << cmt, cvalue, csecret, rev, rvalue, rsecret, cver, vvalue, vsalt >>

LongValue == [i \in 1..32 |-> IF i = 32 THEN "j" ELSE "k"]

ValueSamples ==
  { NumberValue(10, 0), NumberValue(10, 5), NumberValue(11, 0), BigIntValue(10),
    StringValue(<< "1", "0" >>), StringValue(<< "1", "0", ".", "5" >>),
    StringValue(<< "0", "x", "a" >>), StringValue(<< "0", "x", "0", "A" >>),
    StringValue(<< "0", "x", "z" >>), StringValue(<< "a" >>), StringValue(<< >>),
    StringValue(LongLeaf), StringValue(LongValue) }

SecretSamples == { << >>, << "s" >>, << "S" >> }

\* Outcomes of generateSalt(): 0x and 64 hexadecimal digits
RandomSalts == { HexPrefix \o [i \in 1..SaltWidth |-> "0"],
                 HexPrefix \o [i \in 1..SaltWidth |-> "7"] }

\* commit.create with a secret: generateSalt() is not called unless the secret
\* is falsy.  One commitment is made per behaviour (and another after one
\* that threw).
CommitCreate ==
  /\ ~cmt.made \/ cmt.threw
  /\ \E value \in ValueSamples, secret \in { Absent } \cup { Given(s) : s \in SecretSamples },
        random \in RandomSalts :
       /\ Truthy(secret) => random = CHOOSE r \in RandomSalts : TRUE
       /\ cmt' = commitCreate(value, secret, random)
       /\ cvalue' = value
       /\ csecret' = secret
       /\ rev' = NoReveal
       /\ rvalue' = StringValue(<< >>)
       /\ rsecret' = << >>
       /\ cver' = NoCommitVerify
       /\ vvalue' = StringValue(<< >>)
       /\ vsalt' = << >>

\* commit.reveal of the commitment.  The calls that open a commitment write
\* nothing, so one of them is taken per behaviour.
CommitReveal ==
  /\ cmt.made /\ ~cmt.threw
  /\ ~rev.called /\ ~cver.called
  /\ \E value \in ValueSamples, secret \in SecretSamples :
       /\ rev' = commitReveal(cmt.commitment, value, secret)
       /\ rvalue' = value
       /\ rsecret' = secret
  /\ UNCHANGED << cmt, cvalue, csecret, cver, vvalue, vsalt >>

\* String.prototype.toUpperCase
toUpperCase(s) ==
  [i \in 1..Len(s) |->
     IF CharCode(s[i]) >= 97 /\ CharCode(s[i]) <= 122 THEN CharOf(CharCode(s[i]) - 32)
     ELSE s[i]]

\* Strings for the commitment of commit.create: as returned, its digits in
\* upper case, and with one more leading zero digit.
CommitmentForms(commitment) ==
  { commitment,
    HexPrefix \o toUpperCase(SubSeq(commitment, 3, Len(commitment))),
    HexPrefix \o << "0" >> \o SubSeq(commitment, 3, Len(commitment)) }

\* commit.verify of the commitment, with the salt commit.create returned or
\* any other.
CommitVerify ==
  /\ cmt.made /\ ~cmt.threw
  /\ ~rev.called /\ ~cver.called
  /\ \E value \in ValueSamples, salt \in { cmt.salt, NoLiteral } \cup RandomSalts,
        commitment \in CommitmentForms(cmt.commitment) :
       /\ cver' = commitVerify(commitment, value, salt)
       /\ vvalue' = value
       /\ vsalt' = salt
  /\ UNCHANGED << cmt, cvalue, csecret, rev, rvalue, rsecret >>

CommitNext ==
  \/ CommitCreate
  \/ CommitReveal
  \/ CommitVerify

\* ---------------------------------------------------------------- range

\* 2 ** i
Pow2(i) == [j \in 1..(i \div 4 + 1) |-> IF j = i \div 4 + 1 THEN 2 ^ (i % 4) ELSE 0]

\* Math.ceil(Math.log2(x)) for an integer x >= 1: the least w with x <= 2 ** w
RECURSIVE CeilLog2From(_, _)
CeilLog2From(x, w) == IF NatLeq(x, Pow2(w)) THEN w ELSE CeilLog2From(x, w + 1)

CeilLog2(x) == CeilLog2From(x, 0)

WordBits == 32

\* ToInt32 keeps the low 32 bits of the number.
ToInt32(n) == Norm(sliceTo(n, WordBits \div 4))

\* (n >> i) & 1: the shift count is taken modulo 32, and the bit is the bit of
\* that position in the 32-bit word (the sign fills from bit 31 up only).
ShiftRightAnd1(n, i) ==
  LET count == i % WordBits
  IN  (Digit(ToInt32(n), count \div 4 + 1) \div (2 ^ (count % 4))) % 2

InvalidSalt == << "0", "x", "0" >>

NoRangeProof == [made |-> FALSE, valueCommitment |-> << >>, min |-> << >>, max |-> << >>,
                 bits |-> << >>, bitCommitments |-> << >>, salt |-> << >>, valid |-> FALSE]

\* range.prove on an out-of-range value
RejectedProof(min, max) ==
  [made |-> TRUE, valueCommitment |-> InvalidSalt, min |-> min, max |-> max,
   bits |-> << >>, bitCommitments |-> << >>, salt |-> InvalidSalt, valid |-> FALSE]

\* The proof range.prove builds for a value it takes to be in the range.
BuiltProof(value, min, max, salt) ==
  LET rangeSize == NatSub(max, min)
      log == CeilLog2(NatAdd(rangeSize, << 1 >>))
      bitWidth == IF log > 1 THEN log ELSE 1
      normalizedValue == NatSub(value, min)
      saltBigInt == BigIntOfString(salt)
      bits == [i \in 1..bitWidth |-> ShiftRightAnd1(normalizedValue, i - 1)]
  IN  [made |-> TRUE,
       valueCommitment |-> PoseidonHex(<< value, saltBigInt >>),
       min |-> min, max |-> max,
       bits |-> bits,
       bitCommitments |->
         [i \in 1..bitWidth |->
            PoseidonHex(<< NatFromInt(bits[i]), saltBigInt, NatFromInt(i - 1) >>)],
       salt |-> salt, valid |-> TRUE]

\* range.prove without the test against max
rangeProveNoUpperCheck(value, min, max, salt) ==
  IF NatLess(value, min) \/ NatLess(max, min) THEN RejectedProof(min, max)
  ELSE BuiltProof(value, min, max, salt)

\* range.prove; salt is what generateSalt() returns (values are integers >= 0)
rangeProve(value, min, max, salt) ==
  IF NatLess(value, min) \/ NatLess(max, value) THEN RejectedProof(min, max)
  ELSE BuiltProof(value, min, max, salt)

\* The sum of bits[i] * 2 ** i over the (binary) bits, digit by digit.
SumBits(bits) ==
  Norm([j \in 1..((Len(bits) + 3) \div 4) |->
          Digit(bits, 4 * j - 3) + 2 * Digit(bits, 4 * j - 2)
            + 4 * Digit(bits, 4 * j - 1) + 8 * Digit(bits, 4 * j)])

DoubleBits == 53

\* Bit i (from 0) of a number
BitAt(n, i) == (Digit(n, i \div 4 + 1) \div (2 ^ (i % 4))) % 2

\* The number of bits of a number
BitLength(n) ==
  IF n = << >> THEN 0
  ELSE 4 * (Len(n) - 1) + (CHOOSE k \in 1..4 : 2 ^ (k - 1) <= n[Len(n)] /\ n[Len(n)] < 2 ^ k)

\* The number with its bits below bit k cleared
ClearBelow(n, k) ==
  Norm([j \in 1..Len(n) |->
          LET below == k - 4 * (j - 1)
              m == IF below < 0 THEN 0 ELSE IF below > 4 THEN 4 ELSE below
          IN  n[j] - (n[j] % (2 ^ m))])

\* The double nearest to an integer: 53 significant bits, ties to even.
ToDouble(n) ==
  LET k == BitLength(n) - DoubleBits
  IN  IF k <= 0 THEN n
      ELSE LET half == BitAt(n, k - 1) = 1
               sticky == \E i \in 0..(k - 2) : BitAt(n, i) = 1
               odd == BitAt(n, k) = 1
           IN  IF half /\ (sticky \/ odd) THEN NatAdd(ClearBelow(n, k), Pow2(k))
               ELSE ClearBelow(n, k)

\* a + b on numbers
NumberAdd(a, b) == ToDouble(NatAdd(a, b))

\* The loop `normalizedValue += bits[i] * 2 ** i` from bit i on; below 2 ** 53
\* every sum is exact, so the loop starts from SumBits of the first 53 bits.
RECURSIVE ReconstructLoop(_, _, _)
ReconstructLoop(bits, i, acc) ==
  IF i > Len(bits) THEN acc
  ELSE ReconstructLoop(bits, i + 1,
                       NumberAdd(acc, IF bits[i] = 1 THEN Pow2(i - 1) ELSE << >>))

Reconstruct(bits) ==
  ReconstructLoop(bits, DoubleBits + 1, SumBits(sliceTo(bits, DoubleBits)))

NoRangeVerify == [called |-> FALSE, threw |-> FALSE, valid |-> FALSE,
                  bitsAreBinary |-> FALSE, valueInRange |-> FALSE,
                  commitmentsMatch |-> FALSE]

RangeResult(binary, inRange, match) ==
  [called |-> TRUE, threw |-> FALSE, valid |-> binary /\ inRange /\ match,
   bitsAreBinary |-> binary, valueInRange |-> inRange, commitmentsMatch |-> match]

RangeThrew == [called |-> TRUE, threw |-> TRUE, valid |-> FALSE,
               bitsAreBinary |-> FALSE, valueInRange |-> FALSE,
               commitmentsMatch |-> FALSE]

\* The index of the first bit commitment that does not match (the loop
\* breaks there), or 0; reading a commitment past the end of bitCommitments
\* throws (toLowerCase of undefined).
FirstMismatch(proof, saltBigInt) ==
  LET bad == { i \in 1..Len(proof.bits) :
                 \/ i > Len(proof.bitCommitments)
                 \/ toLowerCase(PoseidonHex(<< NatFromInt(proof.bits[i]), saltBigInt,
                                              NatFromInt(i - 1) >>))
                      # toLowerCase(proof.bitCommitments[i]) }
  IN  IF bad = { } THEN 0 ELSE CHOOSE i \in bad : \A j \in bad : i <= j

\* range.verify
rangeVerify(proof) ==
  IF ~proof.valid \/ Len(proof.bits) = 0 THEN RangeResult(FALSE, FALSE, FALSE)
  ELSE IF ~(\A i \in 1..Len(proof.bits) : proof.bits[i] \in {0, 1})
  THEN RangeResult(FALSE, FALSE, FALSE)
  ELSE LET normalizedValue == Reconstruct(proof.bits)
           reconstructedValue == NumberAdd(normalizedValue, proof.min)
           valueInRange == /\ NatLeq(proof.min, reconstructedValue)
                           /\ NatLeq(reconstructedValue, proof.max)
           saltBigInt == BigIntOfString(proof.salt)
           mismatch == FirstMismatch(proof, saltBigInt)
       IN  IF ~valueInRange THEN RangeResult(TRUE, FALSE, FALSE)
           ELSE IF Threw(saltBigInt) THEN RangeThrew
           ELSE IF mismatch > Len(proof.bitCommitments) THEN RangeThrew
           ELSE IF mismatch # 0 THEN RangeResult(TRUE, TRUE, FALSE)
           ELSE RangeResult(TRUE, TRUE,
                            toLowerCase(PoseidonHex(<< reconstructedValue, saltBigInt >>))
                              = toLowerCase(proof.valueCommitment))

\* -------------------------------------------------------- range: state

VARIABLES
  rproof,     \* the proof object in the caller's hands, or NoRangeProof
  rvalueIn,   \* the value given to range.prove
  rcall,      \* the operation that made rproof, and its threshold if it has one
  rtamper,    \* what the caller changed in rproof since range.prove
  rres        \* the result of the last range.verify, or NoRangeVerify

rvars == << rproof, rvalueIn, rcall, rtamper, rres >>

MAX_SAFE == Pow2(32)

RangeSamples ==
  { NatFromInt(0), NatFromInt(1), NatFromInt(18), NatFromInt(25), NatFromInt(100),
    MAX_SAFE }

NoRangeTamper == [kind |-> "none", at |-> 0]

\* range.prove on sample integers; one proof is made per behaviour.
RangeProve ==
  /\ ~rproof.made
  /\ \E value \in RangeSamples, min \in RangeSamples, max \in RangeSamples,
        salt \in RandomSalts :
       /\ rproof' = rangeProve(value, min, max, salt)
       /\ rvalueIn' = value
       /\ rcall' = [op |-> "prove", threshold |-> << >>]
       /\ rtamper' = NoRangeTamper
       /\ rres' = NoRangeVerify

\* Thresholds of the threshold proofs (at least 1, so that threshold - 1 is
\* no negative number)
ThresholdSamples == (RangeSamples \ { NatFromInt(0) }) \cup { NatAdd(MAX_SAFE, << 1 >>) }

\* range.proveGreaterThan
proveGreaterThan(value, threshold, salt) ==
  rangeProve(value, NatAdd(threshold, << 1 >>), MAX_SAFE, salt)

\* range.proveLessThan (threshold >= 1)
proveLessThan(value, threshold, salt) ==
  rangeProve(value, << >>, NatSub(threshold, << 1 >>), salt)

ProveGreaterThan ==
  /\ ~rproof.made
  /\ \E value \in RangeSamples, threshold \in ThresholdSamples, salt \in RandomSalts :
       /\ rproof' = proveGreaterThan(value, threshold, salt)
       /\ rvalueIn' = value
       /\ rcall' = [op |-> "proveGreaterThan", threshold |-> threshold]
       /\ rtamper' = NoRangeTamper
       /\ rres' = NoRangeVerify

ProveLessThan ==
  /\ ~rproof.made
  /\ \E value \in RangeSamples, threshold \in ThresholdSamples, salt \in RandomSalts :
       /\ rproof' = proveLessThan(value, threshold, salt)
       /\ rvalueIn' = value
       /\ rcall' = [op |-> "proveLessThan", threshold |-> threshold]
       /\ rtamper' = NoRangeTamper
       /\ rres' = NoRangeVerify

\* The caller hands range.verify a proof object of its own making: the proof
\* of range.prove with one field changed.  Each change is made at most once.
Forge(proof, kind, at) ==
  /\ rproof.made
  /\ rtamper = NoRangeTamper
  /\ rproof' = proof
  /\ rtamper' = [kind |-> kind, at |-> at]
  /\ rres' = NoRangeVerify
  /\ UNCHANGED << rvalueIn, rcall >>

DropBitCommitment ==
  /\ Len(rproof.bitCommitments) > 0
  /\ Forge([rproof EXCEPT !.bitCommitments = sliceTo(@, Len(@) - 1)],
           "dropCommitment", Len(rproof.bitCommitments))

AddBitCommitment ==
  Forge([rproof EXCEPT !.bitCommitments = Append(@, rproof.valueCommitment)],
        "addCommitment", Len(rproof.bitCommitments) + 1)

ForgeBit ==
  \E i \in { 1, Len(rproof.bits) } \cap DOMAIN rproof.bits :
    \E b \in { 0, 1, 2 } \ { rproof.bits[i] } :
      Forge([rproof EXCEPT !.bits[i] = b], "bit", i)

AppendBit ==
  Forge([rproof EXCEPT !.bits = Append(@, 0)], "appendBit", Len(rproof.bits) + 1)

ForgeSalt ==
  \E salt \in (RandomSalts \cup { NoLiteral }) \ { rproof.salt } :
    Forge([rproof EXCEPT !.salt = salt], "salt", 0)

ForgeBounds ==
  \/ \E min \in RangeSamples \ { rproof.min } : Forge([rproof EXCEPT !.min = min], "min", 0)
  \/ \E max \in RangeSamples \ { rproof.max } : Forge([rproof EXCEPT !.max = max], "max", 0)

ForgeValid ==
  Forge([rproof EXCEPT !.valid = ~@], "valid", 0)

ForgeCommitmentCase ==
  \/ Forge([rproof EXCEPT !.valueCommitment = toUpperCase(@)], "valueCommitmentCase", 0)
  \/ /\ Len(rproof.bitCommitments) > 0
     /\ Forge([rproof EXCEPT !.bitCommitments[1] = toUpperCase(@)], "bitCommitmentCase", 1)

ForgeValueCommitment ==
  /\ Len(rproof.bitCommitments) > 0
  /\ Forge([rproof EXCEPT !.valueCommitment = rproof.bitCommitments[1]],
           "valueCommitment", 0)

WideBits == 55

\* The caller makes a proof of WideBits bits, the lowest and the highest set,
\* with the commitment of every bit, and with the commitment of the value
\* that has the highest bit alone.
WideProof(salt) ==
  LET bits == [i \in 1..WideBits |-> IF i \in { 1, WideBits } THEN 1 ELSE 0]
      saltBigInt == BigIntOfString(salt)
  IN  [made |-> TRUE,
       valueCommitment |-> PoseidonHex(<< Pow2(WideBits - 1), saltBigInt >>),
       min |-> << >>, max |-> Pow2(WideBits),
       bits |-> bits,
       bitCommitments |->
         [i \in 1..WideBits |->
            PoseidonHex(<< NatFromInt(bits[i]), saltBigInt, NatFromInt(i - 1) >>)],
       salt |-> salt, valid |-> TRUE]

ForgeWideProof ==
  Forge(WideProof(rproof.salt), "wide", 0)

RangeVerify ==
  /\ rproof.made
  /\ rres' = rangeVerify(rproof)
  /\ UNCHANGED << rproof, rvalueIn, rcall, rtamper >>

RangeNext ==
  \/ RangeProve
  \/ ProveGreaterThan
  \/ ProveLessThan
  \/ DropBitCommitment
  \/ AddBitCommitment
  \/ ForgeBit
  \/ AppendBit
  \/ ForgeSalt
  \/ ForgeBounds
  \/ ForgeValid
  \/ ForgeCommitmentCase
  \/ ForgeValueCommitment
  \/ ForgeWideProof
  \/ RangeVerify

\* ------------------------------------------------------------ nullifier

NoNullifier == [made |-> FALSE, threw |-> FALSE, nullifier |-> << >>, scope |-> << >>,
                algorithm |-> ""]

\* nullifier.create hashing the secret alone
nullifierCreateSecretOnly(secret, scope) ==
  LET secretField == stringToFieldElement(secret)
  IN  IF Threw(secretField)
      THEN [NoNullifier EXCEPT !.made = TRUE, !.threw = TRUE]
      ELSE [made |-> TRUE, threw |-> FALSE,
            nullifier |-> PoseidonHex(<< secretField >>),
            scope |-> scope, algorithm |-> "Poseidon"]

\* nullifier.create
nullifierCreate(secret, scope) ==
  LET secretField == stringToFieldElement(secret)
      scopeField == stringToFieldElement(scope)
  IN  IF Threw(secretField) \/ Threw(scopeField)
      THEN [NoNullifier EXCEPT !.made = TRUE, !.threw = TRUE]
      ELSE [made |-> TRUE, threw |-> FALSE,
            nullifier |-> PoseidonHex(<< secretField, scopeField >>),
            scope |-> scope, algorithm |-> "Poseidon"]

NoNullifierVerify == [called |-> FALSE, threw |-> FALSE, valid |-> FALSE,
                      nullifier |-> << >>, expectedNullifier |-> << >>, scope |-> << >>]

\* nullifier.verify comparing the hashes as they are written
nullifierVerifyAsGiven(nullifierHash, secret, scope) ==
  LET secretField == stringToFieldElement(secret)
      scopeField == stringToFieldElement(scope)
      expectedNullifier == PoseidonHex(<< secretField, scopeField >>)
  IN  IF Threw(secretField) \/ Threw(scopeField)
      THEN [NoNullifierVerify EXCEPT !.called = TRUE, !.threw = TRUE]
      ELSE [called |-> TRUE, threw |-> FALSE,
            valid |-> expectedNullifier = nullifierHash,
            nullifier |-> nullifierHash, expectedNullifier |-> expectedNullifier,
            scope |-> scope]

\* nullifier.verify
nullifierVerify(nullifierHash, secret, scope) ==
  LET secretField == stringToFieldElement(secret)
      scopeField == stringToFieldElement(scope)
      expectedNullifier == PoseidonHex(<< secretField, scopeField >>)
  IN  IF Threw(secretField) \/ Threw(scopeField)
      THEN [NoNullifierVerify EXCEPT !.called = TRUE, !.threw = TRUE]
      ELSE [called |-> TRUE, threw |-> FALSE,
            valid |-> toLowerCase(expectedNullifier) = toLowerCase(nullifierHash),
            nullifier |-> nullifierHash, expectedNullifier |-> expectedNullifier,
            scope |-> scope]

NoSet == [created |-> FALSE, nullifiers |-> { }, scope |-> << >>, size |-> 0]

\* nullifier.createSet
createSet(scope) == [created |-> TRUE, nullifiers |-> { }, scope |-> scope, size |-> 0]

\* nullifier.addToSet keeping the hash as it was given
addToSetAsGiven(set, nullifierHash) ==
  IF nullifierHash \in set.nullifiers THEN [set |-> set, ret |-> FALSE]
  ELSE LET added == set.nullifiers \cup { nullifierHash }
       IN  [set |-> [set EXCEPT !.nullifiers = added, !.size = Cardinality(added)],
            ret |-> TRUE]

\* nullifier.addToSet leaving set.size as it was
addToSetStaleSize(set, nullifierHash) ==
  LET normalizedHash == toLowerCase(nullifierHash)
  IN  IF normalizedHash \in set.nullifiers THEN [set |-> set, ret |-> FALSE]
      ELSE [set |-> [set EXCEPT !.nullifiers = @ \cup { normalizedHash }], ret |-> TRUE]

\* nullifier.addToSet: the set after the call and the value returned
addToSet(set, nullifierHash) ==
  LET normalizedHash == toLowerCase(nullifierHash)
  IN  IF normalizedHash \in set.nullifiers THEN [set |-> set, ret |-> FALSE]
      ELSE LET added == set.nullifiers \cup { normalizedHash }
           IN  [set |-> [set EXCEPT !.nullifiers = added, !.size = Cardinality(added)],
                ret |-> TRUE]

\* nullifier.isInSet looking the hash up as it was given
isInSetAsGiven(set, nullifierHash) ==
  [set |-> set, ret |-> nullifierHash \in set.nullifiers]

\* nullifier.isInSet: the set after the call and the value returned
isInSet(set, nullifierHash) ==
  [set |-> set, ret |-> toLowerCase(nullifierHash) \in set.nullifiers]

\* ----------------------------------------------------- nullifier: state

VARIABLES
  nfirst,     \* the result of the first nullifier.create, or NoNullifier
  nsecond,    \* the result of the second nullifier.create, or NoNullifier
  nsecret,    \* the secret both were created with
  nver,       \* the result of the last nullifier.verify, or NoNullifierVerify
  vhash,      \* the hash given to nullifier.verify
  vsecret,    \* the secret given to nullifier.verify
  vscope,     \* the scope given to nullifier.verify
  nset,       \* the NullifierSet, or NoSet
  nhist       \* the addToSet and isInSet calls made on the set, with their returns

ncvars == << nfirst, nsecond, nsecret, nver, vhash, vsecret, vscope >>

nvars == << ncvars, nset, nhist >>

MaxCalls == 4

NullifierSecrets == { << "s" >>, << "0", "x", "1" >> }

ScopeSamples ==
  { << "a" >>, << "b" >>, << "0", "x", "1" >>, << "0", "x", "0", "1" >>,
    << "0", "x", "6", "1" >>, << "0", "x", "z" >>, LongLeaf, LongValue,
    [i \in 1..31 |-> "k"] }

HashSamples ==
  { << "0", "x", "a", "b" >>, << "0", "x", "A", "B" >>, << "0", "x", "a", "B" >>,
    << "0", "x", "c", "d" >> }

\* nullifier.create(secret, scope), the first call
NullifierCreate ==
  /\ ~nfirst.made
  /\ \E secret \in NullifierSecrets, scope \in ScopeSamples :
       /\ nfirst' = nullifierCreate(secret, scope)
       /\ nsecret' = secret
  /\ UNCHANGED << nsecond, nver, vhash, vsecret, vscope, nset, nhist >>

\* nullifier.create(secret, scope) again, with the same secret
NullifierCreateAgain ==
  /\ nfirst.made /\ ~nsecond.made
  /\ \E scope \in ScopeSamples : nsecond' = nullifierCreate(nsecret, scope)
  /\ UNCHANGED << nfirst, nsecret, nver, vhash, vsecret, vscope, nset, nhist >>

\* nullifier.verify of a hash: a nullifier created before, as returned or in
\* upper case, or another hash.  One call is taken per behaviour.
NullifierVerify ==
  /\ nfirst.made /\ ~nver.called
  /\ \E h \in { nfirst.nullifier, toUpperCase(nfirst.nullifier), nsecond.nullifier,
                 << "0", "x", "c", "d" >> },
        secret \in NullifierSecrets, scope \in ScopeSamples :
       /\ nver' = nullifierVerify(h, secret, scope)
       /\ vhash' = h
       /\ vsecret' = secret
       /\ vscope' = scope
  /\ UNCHANGED << nfirst, nsecond, nsecret, nset, nhist >>

NullifierNext ==
  \/ NullifierCreate
  \/ NullifierCreateAgain
  \/ NullifierVerify

CreateSet ==
  /\ ~nset.created
  /\ \E scope \in { << "a" >>, << "b" >> } : nset' = createSet(scope)
  /\ UNCHANGED << ncvars, nhist >>

AddToSet ==
  /\ nset.created /\ Len(nhist) < MaxCalls
  /\ \E h \in HashSamples :
       LET r == addToSet(nset, h)
       IN  /\ nset' = r.set
           /\ nhist' = Append(nhist, [op |-> "addToSet", arg |-> h, ret |-> r.ret])
  /\ UNCHANGED ncvars

IsInSet ==
  /\ nset.created /\ Len(nhist) < MaxCalls
  /\ \E h \in HashSamples :
       LET r == isInSet(nset, h)
       IN  /\ nset' = r.set
           /\ nhist' = Append(nhist, [op |-> "isInSet", arg |-> h, ret |-> r.ret])
  /\ UNCHANGED ncvars

NullifierSetNext ==
  \/ CreateSet
  \/ AddToSet
  \/ IsInSet

\* ---------------------------------------------- oracle initialisation

\* getPoseidon of one module, called by concurrent callers.  A caller is idle,
\* suspended at `await buildPoseidon()` (awaitBuild), suspended at the
\* caller's `await getPoseidon()` (awaitGet), has its result (done), or has
\* been rejected (rejected).  A caller of sign.isEddsaAvailable is suspended
\* at `await buildEddsa()` (awaitEddsa), at `await buildBabyjub()`
\* (awaitBabyjub) or at `await initEddsaAndBabyjub()` (awaitInit).

NumCallers == 2

MaxBuilds == 2

Callers == 1..NumCallers

OracleModules == { "nullifier", "commit" }

\* The module whose getPoseidon is followed together with the sign module.
HashModule == "hash"

AllModules == OracleModules \cup { HashModule }

VARIABLES
  poseidonInstance,   \* per module: 0 for null, or the number of the build it holds
  buildCalls,         \* per module: the number of buildPoseidon() invocations
  okBuilds,           \* per module: the builds that resolved
  pc,                 \* per caller: its position
  inModule,           \* per caller: the module whose operation it runs
  built,              \* per caller: the build it started (0 for none)
  got,                \* per caller: the instance getPoseidon returned to it
  eddsaInstance,      \* sign: 0 for null, 1 for the EdDSA instance
  babyjubInstance,    \* sign: 0 for null, 1 for the BabyJub instance
  eddsaCheckDone,     \* sign: the flag of that name
  initResult,         \* per caller: what initEddsaAndBabyjub did: none, pair, threw
  pairHeld,           \* per caller: the pair initEddsaAndBabyjub returned
  available           \* per caller: what isEddsaAvailable returned: none, true, false

ovars == << poseidonInstance, buildCalls, okBuilds, pc, inModule, built, got,
            eddsaInstance, babyjubInstance, eddsaCheckDone, initResult, pairHeld,
            available >>

signvars == << eddsaInstance, babyjubInstance, eddsaCheckDone, initResult, pairHeld,
               available >>

poseidonvars == << poseidonInstance, buildCalls, okBuilds, inModule, built, got >>

\* A caller starts an operation of module m; getPoseidon runs up to its await.
GetPoseidonCall(c, m) ==
  /\ pc[c] = "idle"
  /\ inModule' = [inModule EXCEPT ![c] = m]
  /\ IF poseidonInstance[m] = 0
     THEN /\ buildCalls[m] < MaxBuilds
          /\ buildCalls' = [buildCalls EXCEPT ![m] = @ + 1]
          /\ built' = [built EXCEPT ![c] = buildCalls[m] + 1]
          /\ pc' = [pc EXCEPT ![c] = "awaitBuild"]
          /\ got' = [got EXCEPT ![c] = 0]
     ELSE /\ got' = [got EXCEPT ![c] = poseidonInstance[m]]
          /\ built' = [built EXCEPT ![c] = 0]
          /\ pc' = [pc EXCEPT ![c] = "awaitGet"]
          /\ UNCHANGED buildCalls
  /\ UNCHANGED << poseidonInstance, okBuilds, signvars >>

\* buildPoseidon() resolves: the caller stores its build and returns it.
BuildResolves(c) ==
  /\ pc[c] = "awaitBuild"
  /\ poseidonInstance' = [poseidonInstance EXCEPT ![inModule[c]] = built[c]]
  /\ okBuilds' = [okBuilds EXCEPT ![inModule[c]] = @ \cup { built[c] }]
  /\ got' = [got EXCEPT ![c] = built[c]]
  /\ pc' = [pc EXCEPT ![c] = "awaitGet"]
  /\ UNCHANGED << buildCalls, inModule, built, signvars >>

\* buildPoseidon() rejects: the assignment is not made, and getPoseidon and the
\* operation that awaits it reject.
BuildRejects(c) ==
  /\ pc[c] = "awaitBuild"
  /\ pc' = [pc EXCEPT ![c] = "rejected"]
  /\ UNCHANGED << poseidonvars, signvars >>

\* `await getPoseidon()` resumes and the operation completes.
OperationCompletes(c) ==
  /\ pc[c] = "awaitGet"
  /\ pc' = [pc EXCEPT ![c] = "done"]
  /\ UNCHANGED << poseidonvars, signvars >>

\* The caller takes its result, or catches the rejection, and is free to call
\* again.
OperationReturns(c) ==
  /\ pc[c] \in { "done", "rejected" }
  /\ pc' = [pc EXCEPT ![c] = "idle"]
  /\ inModule' = [inModule EXCEPT ![c] = "nullifier"]
  /\ built' = [built EXCEPT ![c] = 0]
  /\ got' = [got EXCEPT ![c] = 0]
  /\ initResult' = [initResult EXCEPT ![c] = "none"]
  /\ pairHeld' = [pairHeld EXCEPT ![c] = << 0, 0 >>]
  /\ available' = [available EXCEPT ![c] = "none"]
  /\ UNCHANGED << poseidonInstance, buildCalls, okBuilds, eddsaInstance,
                  babyjubInstance, eddsaCheckDone >>

\* The end of initEddsaAndBabyjub taking the EdDSA instance alone as proof
InitCheckEddsaOnly(eddsa, babyjub) ==
  IF eddsa = 0 THEN "threw" ELSE "pair"

\* The end of initEddsaAndBabyjub: throw unless both instances are there.
InitCheck(eddsa, babyjub) ==
  IF eddsa = 0 \/ babyjub = 0 THEN "threw" ELSE "pair"

\* initEddsaAndBabyjub from `eddsaCheckDone = true` to its return or throw,
\* with the instances as they are then.
InitFinishes(c, eddsa, babyjub) ==
  /\ eddsaCheckDone' = TRUE
  /\ initResult' = [initResult EXCEPT ![c] = InitCheck(eddsa, babyjub)]
  /\ pairHeld' = [pairHeld EXCEPT ![c] =
                    IF InitCheck(eddsa, babyjub) = "pair" THEN << eddsa, babyjub >>
                    ELSE << 0, 0 >>]
  /\ pc' = [pc EXCEPT ![c] = "awaitInit"]
  /\ available' = available

\* sign.isEddsaAvailable() is called.  With the check done,
\* initEddsaAndBabyjub goes to its end; otherwise it calls buildEddsa(), or
\* finds circomlibjs missing or without the two builders and goes to its end.
IsEddsaAvailableCall(c) ==
  /\ pc[c] = "idle"
  /\ \/ /\ eddsaCheckDone
        /\ InitFinishes(c, eddsaInstance, babyjubInstance)
     \/ /\ ~eddsaCheckDone
        /\ InitFinishes(c, eddsaInstance, babyjubInstance)
     \/ /\ ~eddsaCheckDone
        /\ pc' = [pc EXCEPT ![c] = "awaitEddsa"]
        /\ UNCHANGED << eddsaCheckDone, initResult, pairHeld, available >>
  /\ UNCHANGED << poseidonvars, eddsaInstance, babyjubInstance >>

\* buildEddsa() resolves; buildBabyjub() is called.
BuildEddsaResolves(c) ==
  /\ pc[c] = "awaitEddsa"
  /\ eddsaInstance' = 1
  /\ pc' = [pc EXCEPT ![c] = "awaitBabyjub"]
  /\ UNCHANGED << poseidonvars, babyjubInstance, eddsaCheckDone, initResult, pairHeld,
                  available >>

\* buildEddsa() rejects; the catch swallows it.
BuildEddsaRejects(c) ==
  /\ pc[c] = "awaitEddsa"
  /\ InitFinishes(c, eddsaInstance, babyjubInstance)
  /\ UNCHANGED << poseidonvars, eddsaInstance, babyjubInstance >>

\* buildBabyjub() resolves.
BuildBabyjubResolves(c) ==
  /\ pc[c] = "awaitBabyjub"
  /\ babyjubInstance' = 1
  /\ InitFinishes(c, eddsaInstance, 1)
  /\ UNCHANGED << poseidonvars, eddsaInstance >>

\* buildBabyjub() rejects; the catch swallows it.
BuildBabyjubRejects(c) ==
  /\ pc[c] = "awaitBabyjub"
  /\ InitFinishes(c, eddsaInstance, babyjubInstance)
  /\ UNCHANGED << poseidonvars, eddsaInstance, babyjubInstance >>

\* `await initEddsaAndBabyjub()` resumes in isEddsaAvailable: true after a
\* return, false from the catch after a throw.
IsEddsaAvailableReturns(c) ==
  /\ pc[c] = "awaitInit"
  /\ available' = [available EXCEPT ![c] =
                     IF initResult[c] = "pair" THEN "true" ELSE "false"]
  /\ pc' = [pc EXCEPT ![c] = "done"]
  /\ UNCHANGED << poseidonvars, eddsaInstance, babyjubInstance, eddsaCheckDone,
                  initResult, pairHeld >>

OracleNext ==
  \E c \in Callers :
    \/ \E m \in OracleModules : GetPoseidonCall(c, m)
    \/ BuildResolves(c)
    \/ BuildRejects(c)
    \/ OperationCompletes(c)
    \/ OperationReturns(c)

\* Callers of the hash module and of sign.isEddsaAvailable.
InitNext ==
  \E c \in Callers :
    \/ GetPoseidonCall(c, HashModule)
    \/ BuildResolves(c)
    \/ BuildRejects(c)
    \/ OperationCompletes(c)
    \/ OperationReturns(c)
    \/ IsEddsaAvailableCall(c)
    \/ BuildEddsaResolves(c)
    \/ BuildEddsaRejects(c)
    \/ BuildBabyjubResolves(c)
    \/ BuildBabyjubRejects(c)
    \/ IsEddsaAvailableReturns(c)

\* ------------------------------------------------------ specifications

vars == << mvars, cvars, rvars, nvars, ovars >>

\* The state after the modules are loaded: nothing built, proved or stored.
Init ==
  /\ tree = NoTree
  /\ mproof = NoProof
  /\ mleaf = << >>
  /\ mtamper = NoTamper
  /\ mres = NoVerify
  /\ mcall = NoCall
  /\ cmt = NoCommitment
  /\ cvalue = StringValue(<< >>)
  /\ csecret = Absent
  /\ rev = NoReveal
  /\ rvalue = StringValue(<< >>)
  /\ rsecret = << >>
  /\ cver = NoCommitVerify
  /\ vvalue = StringValue(<< >>)
  /\ vsalt = << >>
  /\ rproof = NoRangeProof
  /\ rvalueIn = << >>
  /\ rcall = [op |-> "none", threshold |-> << >>]
  /\ rtamper = NoRangeTamper
  /\ rres = NoRangeVerify
  /\ nfirst = NoNullifier
  /\ nsecond = NoNullifier
  /\ nsecret = << >>
  /\ nver = NoNullifierVerify
  /\ vhash = << >>
  /\ vsecret = << >>
  /\ vscope = << >>
  /\ nset = NoSet
  /\ nhist = << >>
  /\ poseidonInstance = [m \in AllModules |-> 0]
  /\ buildCalls = [m \in AllModules |-> 0]
  /\ pc = [c \in Callers |-> "idle"]
  /\ inModule = [c \in Callers |-> "nullifier"]
  /\ built = [c \in Callers |-> 0]
  /\ got = [c \in Callers |-> 0]
  /\ okBuilds = [m \in AllModules |-> { }]
  /\ eddsaInstance = 0
  /\ babyjubInstance = 0
  /\ eddsaCheckDone = FALSE
  /\ initResult = [c \in Callers |-> "none"]
  /\ pairHeld = [c \in Callers |-> << 0, 0 >>]
  /\ available = [c \in Callers |-> "none"]

SpecMerkle ==
  /\ Init
  /\ [][MerkleNext /\ UNCHANGED << cvars, rvars, nvars, ovars >>]_vars

SpecCommit ==
  /\ Init
  /\ [][CommitNext /\ UNCHANGED << mvars, rvars, nvars, ovars >>]_vars

SpecRange ==
  /\ Init
  /\ [][RangeNext /\ UNCHANGED << mvars, cvars, nvars, ovars >>]_vars

SpecNullifier ==
  /\ Init
  /\ [][NullifierNext /\ UNCHANGED << mvars, cvars, rvars, ovars >>]_vars

SpecNullifierSet ==
  /\ Init
  /\ [][NullifierSetNext /\ UNCHANGED << mvars, cvars, rvars, ovars >>]_vars

SpecOracle ==
  /\ Init
  /\ [][OracleNext /\ UNCHANGED << mvars, cvars, rvars, nvars >>]_vars

SpecInit ==
  /\ Init
  /\ [][InitNext /\ UNCHANGED << mvars, cvars, rvars, nvars >>]_vars

\* --------------------------------------------------------------- claims

\* Two strings are equal ignoring letter case.
EqualIgnoringCase(a, b) ==
  /\ Len(a) = Len(b)
  /\ \A k \in 1..Len(a) :
       \/ a[k] = b[k]
       \/ IsUpper(a[k]) /\ CharCode(b[k]) = CharCode(a[k]) + 32
       \/ IsUpper(b[k]) /\ CharCode(a[k]) = CharCode(b[k]) + 32

\* ------------------------------------------------------- merkle: claims

\* C1: a proof that merkle.proof made for leaf i of a tree that merkle.create
\* built verifies against that tree's root: merkle.verify returns valid = true.
MerkleRoundTrip ==
  (mres.called /\ mtamper = NoTamper) => (~mres.threw /\ mres.valid)

MerkleRoundTripWitness ==
  /\ mres.called /\ mtamper = NoTamper /\ mres.valid
  /\ tree.depth = 2 /\ mproof.index = 2

TamperChangesValue ==
  LET digits == /\ mtamper.pos > 2
                /\ DigitVal(mtamper.old) >= 0
                /\ DigitVal(mtamper.new) >= 0
                /\ DigitVal(mtamper.old) # DigitVal(mtamper.new)
  IN  \/ mtamper.kind = "pathElement" /\ digits
      \/ /\ mtamper.kind = "leaf"
         /\ startsWith(mproof.leaf, HexPrefix)
         /\ digits
      \/ /\ mtamper.kind = "leaf"
         /\ ~startsWith(mproof.leaf, HexPrefix)
         /\ ~startsWith(mleaf, HexPrefix)
         /\ mtamper.pos <= MaxFieldBytes

MerkleLeafTamperWitness ==
  /\ mres.called /\ ~mres.threw /\ ~mres.valid
  /\ TamperChangesValue
  /\ mtamper.kind = "leaf" /\ mtamper.pos = MaxFieldBytes

\* The proof in the caller's hands is malformed: its two arrays differ in
\* length, or are not as long as the tree is deep, or an entry of pathElements
\* is no hexadecimal literal.
MalformedProof ==
  \/ Len(mproof.pathElements) # Len(mproof.pathIndices)
  \/ Len(mproof.pathElements) # tree.depth
  \/ \E k \in 1..Len(mproof.pathElements) : Threw(BigIntOfString(mproof.pathElements[k]))

\* C11 as stated: merkle.verify of a malformed proof does not throw and
\* returns valid = false.
MerkleVerifyFailsClosed ==
  (mres.called /\ MalformedProof) => (~mres.threw /\ ~mres.valid)

\* C13 as stated: merkle.create throws exactly when it is given no leaves.
MerkleCreateFailsOnlyOnEmpty ==
  mcall.op = "create" => (mcall.threw <=> mcall.leaves = << >>)

\* C14: a merkle.proof call leaves the tree as it was; with an index below 0 or
\* not below the number of leaves it throws and returns no proof; with any
\* other index it returns a proof of that index whose leaf is the tree's leaf
\* at the index and whose root is the tree's root.
MerkleProofBounds ==
  [][(tree # NoTree /\ mproof = NoProof /\ mcall'.op = "proof")
       => /\ tree' = tree
          /\ IF mcall'.index < 0 \/ mcall'.index >= Len(tree.leaves)
             THEN mcall'.threw /\ mproof' = NoProof
             ELSE /\ ~mcall'.threw
                  /\ mproof'.index = mcall'.index
                  /\ mproof'.leaf = tree.leaves[mcall'.index + 1]
                  /\ mproof'.root = tree.root]_vars

MerkleProofBoundsWitness ==
  /\ mcall.op = "proof" /\ mcall.threw /\ mproof = NoProof
  /\ Len(tree.leaves) = 4 /\ mcall.index = 4

IsPowerOfTwo(k) == \E e \in 0..k : 2 ^ e = k

\* C18: the tree merkle.create returns for n leaves has as many leaves as the
\* smallest power of two that is at least 2 and at least n, the input first and
\* then leaves "0"; level 0 is as long as the leaves, every next level is half
\* as long and holds the hashes of the pairs below, the last level is the root
\* alone, and depth is the number of levels above level 0 and the base-2
\* logarithm of the number of leaves.
MerkleTreeStructure ==
  (mcall.op = "create" /\ ~mcall.threw)
    => LET n == Len(mcall.leaves)
           size == Len(tree.leaves)
           last == Len(tree.levels)
       IN  /\ IsPowerOfTwo(size) /\ size >= 2 /\ size >= n
           /\ \A k \in 2..(size - 1) : ~(IsPowerOfTwo(k) /\ k >= n)
           /\ \A i \in 1..size :
                tree.leaves[i] = (IF i <= n THEN mcall.leaves[i] ELSE << "0" >>)
           /\ Len(tree.levels[1]) = size
           /\ \A k \in 1..(last - 1) :
                /\ 2 * Len(tree.levels[k + 1]) = Len(tree.levels[k])
                /\ \A j \in 1..Len(tree.levels[k + 1]) :
                     tree.levels[k + 1][j]
                       = HashPair(tree.levels[k][2 * j - 1], tree.levels[k][2 * j])
           /\ tree.levels[last] = << tree.root >>
           /\ tree.depth = last - 1
           /\ 2 ^ tree.depth = size

MerkleTreeStructureWitness ==
  /\ mcall.op = "create" /\ ~mcall.threw
  /\ Len(mcall.leaves) = 3 /\ Len(tree.leaves) = 4 /\ tree.depth = 2
  /\ tree.leaves[4] = << "0" >>

\* The index of the sibling: the index with its lowest bit flipped.
Xor1(x) == IF x % 2 = 0 THEN x + 1 ELSE x - 1

\* C19: the proof merkle.proof returns for an index has pathElements and
\* pathIndices of length depth; at level k, pathIndices holds bit k of the
\* index and pathElements holds the node of level k beside the node above the
\* leaf.
MerkleProofShape ==
  (mproof # NoProof /\ mtamper = NoTamper)
    => /\ Len(mproof.pathElements) = tree.depth
       /\ Len(mproof.pathIndices) = tree.depth
       /\ \A k \in 0..(tree.depth - 1) :
            LET at == mproof.index \div (2 ^ k)
            IN  /\ mproof.pathIndices[k + 1] = at % 2
                /\ mproof.pathElements[k + 1] = tree.levels[k + 1][Xor1(at) + 1]

MerkleProofShapeWitness ==
  /\ mproof # NoProof /\ mtamper = NoTamper
  /\ tree.depth = 2 /\ mproof.index = 2
  /\ mproof.pathIndices = << 0, 1 >>
  /\ mproof.pathElements[2] = tree.levels[2][1]

\* ------------------------------------------------------- commit: claims

\* C3 as stated: revealing a commitment with the value and the secret string it
\* was created with returns valid = true.
CommitRoundTrip ==
  (rev.called /\ csecret.given /\ rsecret = csecret.str /\ rvalue = cvalue)
    => (~rev.threw /\ rev.valid)

CommitOpensWithReturnedSalt ==
  (cver.called /\ cver.commitment = cmt.commitment /\ vvalue = cvalue /\ vsalt = cmt.salt)
    => /\ ~cver.threw
       /\ cver.valid
       /\ cver.expectedCommitment = cmt.commitment

CommitOpensWithReturnedSaltWitness ==
  /\ cver.called /\ cver.valid /\ cver.commitment = cmt.commitment
  /\ csecret = Absent /\ vsalt = cmt.salt
  /\ cvalue = BigIntValue(10) /\ vvalue = cvalue

\* The commitment string denotes the field element hash(encode(value), salt).
Opens(commitment, value, salt) ==
  \A v \in { valueToFieldElement(value) }, s \in { hexToFieldElement(salt) } :
    /\ ~Threw(v) /\ ~Threw(s)
    /\ BigIntOfString(commitment) = BigIntOfString(PoseidonHex(<< v, s >>))

\* C24 as stated: commit.reveal and commit.verify do not throw, whatever the
\* value and the secret or salt, and return valid = true exactly when the
\* commitment string denotes the field element hash(encode(value), salt).
CommitNoExceptionPath ==
  /\ rev.called
       => (~rev.threw /\ (rev.valid <=> Opens(rev.commitment, rvalue, SaltOfSecret(rsecret))))
  /\ cver.called
       => (~cver.threw /\ (cver.valid <=> Opens(cver.commitment, vvalue, vsalt)))

\* -------------------------------------------------------- range: claims

\* The proof is as range.prove returned it, for a value inside its range.
InRange ==
  /\ rtamper = NoRangeTamper
  /\ NatLeq(rproof.min, rvalueIn) /\ NatLeq(rvalueIn, rproof.max)

\* The proof is as range.prove returned it, for a value outside its range.
OutOfRange ==
  /\ rtamper = NoRangeTamper
  /\ ~(NatLeq(rproof.min, rvalueIn) /\ NatLeq(rvalueIn, rproof.max))

\* C5 as stated: for min <= value <= max, range.prove returns valid = true and
\* range.verify of the proof returns valid = true with all three checks true.
RangeCompleteness ==
  (rproof.made /\ InRange)
    => /\ rproof.valid
       /\ rres.called =>
            (~rres.threw /\ rres.valid /\ rres.bitsAreBinary
             /\ rres.valueInRange /\ rres.commitmentsMatch)

\* C6: for value < min or value > max, range.prove returns a proof with
\* valid = false and no bits or bit commitments, and range.verify of it returns
\* valid = false.
RangeOutOfRange ==
  (rproof.made /\ OutOfRange)
    => /\ ~rproof.valid
       /\ rproof.bits = << >>
       /\ rproof.bitCommitments = << >>
       /\ rres.called => (~rres.threw /\ ~rres.valid)

RangeOutOfRangeWitness ==
  /\ rproof.made /\ rres.called /\ ~rres.valid /\ rtamper = NoRangeTamper
  /\ rvalueIn = NatFromInt(100) /\ rproof.min = NatFromInt(18)
  /\ rproof.max = NatFromInt(25)

\* C12 as stated: range.verify of any proof object does not throw, and returns
\* valid = false when bitCommitments and bits differ in length, when the proof
\* says valid = false, or when it has no bits.
RangeVerifyFailsClosed ==
  rres.called
    => /\ ~rres.threw
       /\ (\/ Len(rproof.bitCommitments) # Len(rproof.bits)
           \/ ~rproof.valid
           \/ rproof.bits = << >>) => ~rres.valid

\* C20 as stated: when range.verify returns valid = true for a proof, its bits
\* are binary, the sum of bits[i] * 2^i plus min lies between min and max,
\* every bit has its commitment hash(bits[i], salt, i), and valueCommitment is
\* hash(sum + min, salt); hashes are compared as range.verify does, ignoring
\* letter case.
RangeVerifySound ==
  (rres.called /\ rres.valid)
    => \A v \in { NatAdd(SumBits(rproof.bits), rproof.min) },
          salt \in { BigIntOfString(rproof.salt) } :
         /\ \A i \in 1..Len(rproof.bits) : rproof.bits[i] \in { 0, 1 }
         /\ NatLeq(rproof.min, v) /\ NatLeq(v, rproof.max)
         /\ \A i \in 1..Len(rproof.bits) :
              /\ i <= Len(rproof.bitCommitments)
              /\ EqualIgnoringCase(rproof.bitCommitments[i],
                                   PoseidonHex(<< NatFromInt(rproof.bits[i]), salt,
                                                  NatFromInt(i - 1) >>))
         /\ EqualIgnoringCase(rproof.valueCommitment, PoseidonHex(<< v, salt >>))

\* What each of the three checks of range.verify says of the proof in hand.
BitsBinary == \A i \in 1..Len(rproof.bits) : rproof.bits[i] \in { 0, 1 }

ValueInRange ==
  \A v \in { NatAdd(SumBits(rproof.bits), rproof.min) } :
    NatLeq(rproof.min, v) /\ NatLeq(v, rproof.max)

CommitmentsMatch ==
  \A v \in { NatAdd(SumBits(rproof.bits), rproof.min) },
     salt \in { BigIntOfString(rproof.salt) } :
    /\ \A i \in 1..Len(rproof.bits) :
         /\ i <= Len(rproof.bitCommitments)
         /\ EqualIgnoringCase(rproof.bitCommitments[i],
                              PoseidonHex(<< NatFromInt(rproof.bits[i]), salt,
                                             NatFromInt(i - 1) >>))
    /\ EqualIgnoringCase(rproof.valueCommitment, PoseidonHex(<< v, salt >>))

\* The checks of a result short-circuit in the order bits, range, commitments.
ChecksOrdered ==
  /\ rres.valid = (rres.bitsAreBinary /\ rres.valueInRange /\ rres.commitmentsMatch)
  /\ rres.valueInRange => rres.bitsAreBinary
  /\ rres.commitmentsMatch => rres.valueInRange

\* The reported checks name the first check that fails on the proof.
FirstFailureReported ==
  /\ rres.bitsAreBinary = BitsBinary
  /\ BitsBinary => (rres.valueInRange = ValueInRange)
  /\ (BitsBinary /\ ValueInRange) => (rres.commitmentsMatch = CommitmentsMatch)

\* C21 as stated: every result range.verify returns has valid = bitsAreBinary
\* and valueInRange and commitmentsMatch, a true valueInRange comes with a true
\* bitsAreBinary and a true commitmentsMatch with a true valueInRange, and the
\* reported checks name the first check that fails on the proof.
RangeChecksOrdered ==
  (rres.called /\ ~rres.threw) => (ChecksOrdered /\ FirstFailureReported)

\* The proof in hand is as a threshold proof returned it.
ThresholdProof(op) == rproof.made /\ rcall.op = op /\ rtamper = NoRangeTamper

\* proveGreaterThan and proveLessThan return what range.prove returns on their
\* bounds, and the proof says valid exactly for values past the threshold.
ThresholdAsProve ==
  /\ ThresholdProof("proveGreaterThan")
       => /\ rproof = rangeProve(rvalueIn, NatAdd(rcall.threshold, << 1 >>), MAX_SAFE,
                                  rproof.salt)
          /\ rproof.valid <=> (NatLess(rcall.threshold, rvalueIn)
                                /\ NatLeq(rvalueIn, Pow2(32)))
  /\ ThresholdProof("proveLessThan")
       => /\ rproof = rangeProve(rvalueIn, << >>, NatSub(rcall.threshold, << 1 >>),
                                  rproof.salt)
          /\ rproof.valid <=> NatLess(rvalueIn, rcall.threshold)

\* range.verify accepts the threshold proofs that say valid.
ThresholdProofAccepted ==
  ((ThresholdProof("proveGreaterThan") \/ ThresholdProof("proveLessThan"))
     /\ rproof.valid /\ rres.called)
    => (~rres.threw /\ rres.valid)

\* C22 as stated: proveGreaterThan(value, threshold) is prove(value,
\* threshold + 1, 2^32) and valid exactly when threshold < value <= 2^32,
\* proveLessThan(value, threshold) is prove(value, 0, threshold - 1) and valid
\* exactly when 0 <= value < threshold, and range.verify accepts every proof
\* they return with valid = true.
ThresholdProofs == ThresholdAsProve /\ ThresholdProofAccepted

\* w is max(1, ceil(log2(size + 1)))
IsBitWidth(w, size) ==
  /\ w >= 1
  /\ NatLeq(NatAdd(size, << 1 >>), Pow2(w))
  /\ w = 1 \/ NatLess(Pow2(w - 1), NatAdd(size, << 1 >>))

\* C23 as stated: for min <= value <= max the proof of range.prove has
\* max(1, ceil(log2(max - min + 1))) bits and as many bit commitments, bits[i]
\* is bit i of value - min, and the sum of bits[i] * 2^i plus min is value.
RangeBitDecomposition ==
  (rproof.made /\ InRange)
    => /\ IsBitWidth(Len(rproof.bits), NatSub(rproof.max, rproof.min))
       /\ Len(rproof.bitCommitments) = Len(rproof.bits)
       /\ \A i \in 1..Len(rproof.bits) :
            rproof.bits[i] = BitAt(NatSub(rvalueIn, rproof.min), i - 1)
       /\ NatAdd(SumBits(rproof.bits), rproof.min) = rvalueIn

\* ---------------------------------------------------- nullifier: claims

TriedBefore(i, h) ==
  \E j \in 1..(i - 1) :
    nhist[j].op = "addToSet" /\ EqualIgnoringCase(nhist[j].arg, h)

\* C7: among the addToSet and isInSet calls made on one set, an addToSet returns
\* true when no earlier addToSet was given a hash equal to its own ignoring
\* letter case, and false when one was.
NullifierDoubleSpend ==
  \A i \in 1..Len(nhist) :
    nhist[i].op = "addToSet" => (nhist[i].ret = ~TriedBefore(i, nhist[i].arg))

NullifierDoubleSpendWitness ==
  /\ Len(nhist) = 3
  /\ nhist[1] = [op |-> "addToSet", arg |-> << "0", "x", "a", "b" >>, ret |-> TRUE]
  /\ nhist[2].op = "isInSet"
  /\ nhist[3] = [op |-> "addToSet", arg |-> << "0", "x", "A", "B" >>, ret |-> FALSE]

\* C8: an isInSet call leaves the nullifiers and the size of the set as they
\* were, and returns true exactly when an earlier addToSet of a hash equal to
\* its own ignoring letter case returned true.
IsInSetPure ==
  [][(Len(nhist') = Len(nhist) + 1 /\ nhist'[Len(nhist')].op = "isInSet")
       => /\ nset'.nullifiers = nset.nullifiers
          /\ nset'.size = nset.size
          /\ nhist'[Len(nhist')].ret
               = (\E j \in 1..Len(nhist) :
                    /\ nhist[j].op = "addToSet" /\ nhist[j].ret
                    /\ EqualIgnoringCase(nhist[j].arg, nhist'[Len(nhist')].arg))]_vars

IsInSetPureWitness ==
  /\ Len(nhist) = 3
  /\ nhist[1] = [op |-> "addToSet", arg |-> << "0", "x", "a", "B" >>, ret |-> TRUE]
  /\ nhist[2] = [op |-> "isInSet", arg |-> << "0", "x", "A", "B" >>, ret |-> TRUE]
  /\ nhist[3] = [op |-> "isInSet", arg |-> << "0", "x", "c", "d" >>, ret |-> FALSE]
  /\ nset.size = 1

BothCreated == nfirst.made /\ nsecond.made /\ ~nfirst.threw /\ ~nsecond.threw

IsLowerCase(str) == \A i \in 1..Len(str) : CharCode(str[i]) \notin 65..90

\* The number of addToSet calls in a history that returned true
AddedCount(hist) ==
  Cardinality({ i \in 1..Len(hist) : hist[i].op = "addToSet" /\ hist[i].ret })

\* C25: after any calls of createSet, addToSet and isInSet on a set, set.size
\* is the number of members of set.nullifiers and the number of addToSet calls
\* that returned true, and every member is lower case; an addToSet call that
\* returns false leaves set.nullifiers and set.size as they were, and one that
\* returns true adds exactly one member.
NullifierSetBookkeeping ==
  [][/\ nset'.created
          => /\ nset'.size = Cardinality(nset'.nullifiers)
             /\ nset'.size = AddedCount(nhist')
             /\ \A member \in nset'.nullifiers : IsLowerCase(member)
     /\ (Len(nhist') = Len(nhist) + 1 /\ nhist'[Len(nhist')].op = "addToSet")
          => IF nhist'[Len(nhist')].ret
             THEN /\ \E member \in nset'.nullifiers \ nset.nullifiers :
                       nset'.nullifiers = nset.nullifiers \cup { member }
                  /\ nset'.size = nset.size + 1
             ELSE /\ nset'.nullifiers = nset.nullifiers
                  /\ nset'.size = nset.size]_vars

NullifierSetBookkeepingWitness ==
  /\ nset.created /\ nset.size = 2
  /\ \E i \in 1..Len(nhist) : nhist[i].op = "addToSet" /\ ~nhist[i].ret
  /\ \E i \in 1..Len(nhist) :
       nhist[i].op = "addToSet" /\ nhist[i].ret /\ ~IsLowerCase(nhist[i].arg)

\* ------------------------------------------------------- oracle: claims

\* C10 as stated: buildPoseidon is invoked at most once in each module.
BuiltAtMostOnce == \A m \in OracleModules : buildCalls[m] <= 1

\* C17: a caller whose buildPoseidon() failed is rejected and holds no oracle;
\* the handle a module keeps, and every handle returned to a caller, comes from
\* a build that resolved; isEddsaAvailable returns false when
\* initEddsaAndBabyjub threw and true when it returned; and the pair
\* initEddsaAndBabyjub returns has both instances non-null.
InitFailurePropagates ==
  /\ \A m \in AllModules :
       poseidonInstance[m] # 0 => poseidonInstance[m] \in okBuilds[m]
  /\ \A c \in Callers :
       /\ pc[c] = "rejected" => got[c] = 0
       /\ got[c] # 0 => got[c] \in okBuilds[inModule[c]]
       /\ initResult[c] = "pair" => (pairHeld[c][1] # 0 /\ pairHeld[c][2] # 0)
       /\ initResult[c] = "threw" => available[c] \in { "none", "false" }
       /\ (pc[c] = "done" /\ initResult[c] # "none")
            => available[c] = (IF initResult[c] = "pair" THEN "true" ELSE "false")

InitFailureWitness ==
  \E c, d \in Callers :
    /\ pc[c] = "rejected" /\ buildCalls[HashModule] = 2
    /\ poseidonInstance[HashModule] = 0
    /\ pc[d] = "done" /\ available[d] = "false"
    /\ eddsaInstance = 1 /\ babyjubInstance = 0 /\ eddsaCheckDone

====
